---- MODULE Spec2Model ----
(***************************************************************************)
(* Model of rest_framework/schemas.py: the EndpointInspector that walks a  *)
(* URL configuration and the SchemaGenerator that turns the endpoints into *)
(* a nested Document of Links.                                             *)
(*                                                                         *)
(* Text is modelled as a sequence of one-character strings, so that        *)
(* Python's string ordering, strip(), split(), endswith() and the template *)
(* variables of a path are computed and not assumed.                       *)
(***************************************************************************)
EXTENDS Integers, Sequences, FiniteSets, TLC

VARIABLES
    patterns,     \* SchemaGenerator.patterns: the routing tree
    title,        \* SchemaGenerator.title
    url,          \* SchemaGenerator.url (after __init__)
    endpoints,    \* SchemaGenerator.endpoints: None or the memoized list
    pc,           \* position: "idle", "get_links", "returned", "raised"
    caller,       \* who called get_schema: "direct" or "SchemaView"
    request,      \* the request argument of the running get_schema call
    links,        \* get_links: the mapping under construction
    idx,          \* get_links: position of the loop over self.endpoints
    view,         \* get_links: the view built for the last endpoint
    included,     \* get_links: what should_include_view answered for it
    checked,      \* get_links: check_permissions was invoked on that view
    link,         \* get_links: the Link last built (None before the first)
    keys,         \* get_links: the keys last computed (<<>> before the first)
    result,       \* what get_schema returned / what was raised
    response,     \* what SchemaView.get answered
    calls,        \* number of get_schema calls started
    inspections   \* number of times the endpoint inspector ran

vars == <<patterns, title, url, endpoints, pc, caller, request, links, idx,
          view, included, checked, link, keys, result, response, calls, inspections>>

(***************************************************************************)
(* Bounds of the model.                                                    *)
(***************************************************************************)
MaxPatterns == 2     \* top-level nodes of a routing tree
MaxCalls == 2        \* get_schema calls on one generator

(***************************************************************************)
(* Python values.                                                          *)
(***************************************************************************)
None == [some |-> FALSE]
Some(v) == [some |-> TRUE, val |-> v]

\* The characters that occur, in code point order.
Alphabet ==
    << "$", "(", ")", ".", "/", ":", "<", ">", "?", "\\", "^", "_",
       "a", "b", "c", "d", "e", "f", "g", "h", "i", "j", "k", "l", "m",
       "n", "o", "p", "q", "r", "s", "t", "u", "v", "w", "x", "y", "z",
       "{", "}" >>

ord(c) == CHOOSE n \in 1..Len(Alphabet) : Alphabet[n] = c

\* a < b for Python strings: the first differing character decides, and a
\* proper prefix is smaller.
RECURSIVE str_lt(_, _)
str_lt(a, b) ==
    IF b = <<>> THEN FALSE
    ELSE IF a = <<>> THEN TRUE
    ELSE IF Head(a) = Head(b) THEN str_lt(Tail(a), Tail(b))
    ELSE ord(Head(a)) < ord(Head(b))

startswith(s, p) == Len(p) <= Len(s) /\ SubSeq(s, 1, Len(p)) = p

endswith(s, p) ==
    Len(p) <= Len(s) /\ SubSeq(s, Len(s) - Len(p) + 1, Len(s)) = p

\* s.strip(c)
RECURSIVE strip(_, _)
strip(s, c) ==
    IF s = <<>> THEN s
    ELSE IF Head(s) = c THEN strip(Tail(s), c)
    ELSE IF s[Len(s)] = c THEN strip(SubSeq(s, 1, Len(s) - 1), c)
    ELSE s

\* s.split(c): always at least one component, empty ones kept.
RECURSIVE split(_, _)
split(s, c) ==
    IF \A n \in 1..Len(s) : s[n] # c THEN << s >>
    ELSE LET n == CHOOSE k \in 1..Len(s) :
                      s[k] = c /\ \A j \in 1..(k - 1) : s[j] # c
         IN  << SubSeq(s, 1, n - 1) >> \o split(SubSeq(s, n + 1, Len(s)), c)

\* s.replace(old, new) for a one-character old
RECURSIVE replace(_, _, _)
replace(s, old, new) ==
    IF s = <<>> THEN <<>>
    ELSE (IF Head(s) = old THEN new ELSE << Head(s) >>)
             \o replace(Tail(s), old, new)

\* s.replace('//', '/'): left to right, non-overlapping
RECURSIVE replace_slashes(_)
replace_slashes(s) ==
    IF Len(s) < 2 THEN s
    ELSE IF s[1] = "/" /\ s[2] = "/"
         THEN << "/" >> \o replace_slashes(SubSeq(s, 3, Len(s)))
         ELSE << s[1] >> \o replace_slashes(Tail(s))

lower(m) ==
    CASE m = "GET" -> "get" [] m = "POST" -> "post" [] m = "PUT" -> "put"
      [] m = "PATCH" -> "patch" [] m = "DELETE" -> "delete"
      [] m = "OPTIONS" -> "options" [] m = "HEAD" -> "head"
      [] OTHER -> m

upper(m) ==
    CASE m = "get" -> "GET" [] m = "post" -> "POST" [] m = "put" -> "PUT"
      [] m = "patch" -> "PATCH" [] m = "delete" -> "DELETE"
      [] m = "options" -> "OPTIONS" [] m = "head" -> "HEAD"
      [] OTHER -> m

(***************************************************************************)
(* The host project: view classes, permission classes, serializers and the *)
(* URL patterns that routing trees are built from.                         *)
(***************************************************************************)
users == << "u", "s", "e", "r", "s" >>
groups == << "g", "r", "o", "u", "p", "s" >>
star == << "s", "t", "a", "r" >>
admin == << "a", "d", "m", "i", "n" >>
pk == << "p", "k" >>
format == << "f", "o", "r", "m", "a", "t" >>
var == << "v", "a", "r" >>
data == << "d", "a", "t", "a" >>

\* Serializer fields: [source, required, read_only, cls]
IdField == [source |-> << "i", "d" >>, required |-> FALSE,
            read_only |-> TRUE, cls |-> "IntegerField"]
NameField == [source |-> << "n", "a", "m", "e" >>, required |-> TRUE,
              read_only |-> FALSE, cls |-> "CharField"]
EmailField == [source |-> << "e", "m", "a", "i", "l" >>, required |-> FALSE,
               read_only |-> FALSE, cls |-> "EmailField"]
OwnerField == [source |-> << "o", "w", "n", "e", "r" >>, required |-> TRUE,
               read_only |-> FALSE, cls |-> "HiddenField"]

NoSerializer == [kind |-> "none", fields |-> <<>>]
UserSerializer ==
    [kind |-> "Serializer",
     fields |-> << IdField, NameField, EmailField, OwnerField >>]
GroupSerializer == [kind |-> "Serializer", fields |-> << NameField >>]
UserListSerializer == [kind |-> "ListSerializer", fields |-> <<>>]

\* The view classes of the project, by name.  "serializer" is what
\* get_serializer() returns (kind "none": the class has no get_serializer).
ViewClass(cls) ==
    CASE cls = "UserViewSet" ->
           [exclude_from_schema |-> FALSE,
            allowed_methods |-> << "OPTIONS" >>,
            permission_classes |-> << "IsAuthenticatedOrReadOnly" >>,
            serializer |-> UserSerializer,
            pagination_class |-> "PageNumberPagination",
            filter_backends |-> << "SearchFilter" >>,
            parser_classes |-> << "text/plain", "application/json" >>]
      [] cls = "GroupList" ->
           [exclude_from_schema |-> FALSE,
            allowed_methods |-> << "GET", "POST", "OPTIONS" >>,
            permission_classes |-> << "IsAuthenticated" >>,
            serializer |-> NoSerializer,
            pagination_class |-> "None",
            filter_backends |-> << "OrderingFilter" >>,
            parser_classes |-> << "multipart/form-data" >>]
      [] cls = "GroupDetail" ->
           [exclude_from_schema |-> FALSE,
            allowed_methods |-> << "GET", "PATCH", "HEAD", "OPTIONS" >>,
            permission_classes |-> << "AllowAny" >>,
            serializer |-> GroupSerializer,
            pagination_class |-> "None",
            filter_backends |-> <<>>,
            parser_classes |-> <<>>]
      [] cls = "BulkView" ->
           [exclude_from_schema |-> FALSE,
            allowed_methods |-> << "PUT", "PATCH", "OPTIONS" >>,
            permission_classes |-> << "IsAuthenticated", "IsAdminUser" >>,
            serializer |-> UserListSerializer,
            pagination_class |-> "None",
            filter_backends |-> <<>>,
            parser_classes |-> << "*/*" >>]
      [] cls = "SchemaView" ->
           [exclude_from_schema |-> TRUE,
            allowed_methods |-> << "GET", "HEAD", "OPTIONS" >>,
            permission_classes |-> << "IsAuthenticated" >>,
            serializer |-> NoSerializer,
            pagination_class |-> "None",
            filter_backends |-> <<>>,
            parser_classes |-> <<>>]

\* Callbacks: [cls, has_actions, actions, initkwargs].  cls "None" is a plain
\* function view; actions is the viewset's method -> action map, in order.
Callback(cls, actions, initkwargs) ==
    [cls |-> cls, has_actions |-> actions # <<>>, actions |-> actions,
     initkwargs |-> initkwargs]

NoCallback == Callback("None", <<>>, <<>>)

\* Regular expressions are sequences of characters and group tokens.
NamedGroup(name) == << "(?P<" >> \o name \o << ">...)" >>
UnnamedGroup == << "(...)" >>

Pattern(regex, callback) ==
    [kind |-> "RegexURLPattern", regex |-> regex, callback |-> callback,
     url_patterns |-> <<>>]

Resolver(regex, url_patterns) ==
    [kind |-> "RegexURLResolver", regex |-> regex, callback |-> NoCallback,
     url_patterns |-> url_patterns]

UsersRoute ==
    Pattern(<< "^" >> \o users \o << "/", "$" >>,
            Callback("UserViewSet",
                     << << "get", "list" >>, << "post", "create" >> >>, <<>>))

UserRoute ==
    Pattern(<< "^" >> \o users \o << "/" >> \o NamedGroup(pk) \o << "/", "$" >>,
            Callback("UserViewSet",
                     << << "delete", "destroy" >>, << "patch", "partial_update" >>,
                        << "get", "retrieve" >>, << "put", "update" >> >>,
                     <<>>))

StarRoute ==
    Pattern(<< "^" >> \o users \o << "/" >> \o NamedGroup(pk) \o << "/" >>
                \o star \o << "/", "$" >>,
            Callback("UserViewSet", << << "post", "star" >> >>, <<>>))

GroupsRoute ==
    Pattern(<< "^" >> \o users \o << "/" >> \o NamedGroup(pk) \o << "/" >>
                \o groups \o << "/", "$" >>,
            Callback("GroupList", <<>>, <<>>))

GroupsActionRoute ==
    Pattern(<< "^" >> \o users \o << "/" >> \o NamedGroup(pk) \o << "/" >>
                \o groups \o << "/", "$" >>,
            Callback("UserViewSet", << << "get", "groups" >> >>,
                     << << "pagination_class", "None" >> >>))

GroupsMultiRoute ==
    Pattern(<< "^" >> \o users \o << "/" >> \o NamedGroup(pk) \o << "/" >>
                \o groups \o << "/", "$" >>,
            Callback("UserViewSet",
                     << << "post", "groups" >>, << "head", "groups" >>,
                        << "get", "groups" >> >>,
                     <<>>))

BulkRoute ==
    Pattern(<< "^" >> \o users \o << "/", "$" >>,
            Callback("BulkView", <<>>, <<>>))

NestedGroups ==
    Resolver(<< "^" >> \o users \o << "/" >> \o NamedGroup(pk) \o << "/" >>,
             << Pattern(<< "^" >> \o groups \o << "/" >> \o NamedGroup(pk)
                            \o << "/", "$" >>,
                        Callback("GroupDetail", <<>>, <<>>)),
                [kind |-> "LocalePrefix", regex |-> << "^" >>,
                 callback |-> NoCallback, url_patterns |-> <<>>],
                Pattern(<< "^" >> \o groups \o << "\\", "." >>
                            \o NamedGroup(format) \o << "/", "?", "$" >>,
                        Callback("GroupList", <<>>, <<>>)) >>)

SiteRoutes ==
    Resolver(<< "^" >>,
             << Pattern(<< "^", "$" >>, Callback("SchemaView", <<>>, <<>>)),
                Pattern(<< "^" >> \o admin \o << "/" >> \o UnnamedGroup
                            \o << "/", "$" >>, NoCallback),
                Pattern(<< "^" >> \o users \o << "/", "$" >>,
                        Callback("UserViewSet",
                                 << << "options", "metadata" >> >>, <<>>)),
                Pattern(<< "^" >> \o groups \o << "/", "$" >>,
                        Callback("GroupList", <<>>,
                                 << << "exclude_from_schema", TRUE >> >>)) >>)

Nodes ==
    { UsersRoute, UserRoute, StarRoute, GroupsRoute, GroupsActionRoute,
      GroupsMultiRoute, BulkRoute, NestedGroups, SiteRoutes }

\* The routing trees: up to MaxPatterns top-level nodes, in any order.
Trees == UNION { [1..n -> Nodes] : n \in 0..MaxPatterns }

Users == { "anonymous", "user", "admin" }

Requests == { Some([user |-> u, method |-> "GET"]) : u \in Users }

(***************************************************************************)
(* Module-level helpers of schemas.py.                                     *)
(***************************************************************************)
Raise(e) == [raised |-> TRUE, error |-> e]
Return(v) == [raised |-> FALSE, value |-> v]

Dict(items) == [kind |-> "dict", items |-> items]
EmptyDict == Dict(<<>>)

Field(name, location, required, type) ==
    [kind |-> "Field", name |-> name, location |-> location,
     required |-> required, type |-> type]

\* An item a paginator or filter backend declares: a Field or a plain string.
PlainString(name) == [kind |-> "str", name |-> name]

as_query_fields(items) ==
    [n \in 1..Len(items) |->
        IF items[n].kind = "Field" THEN items[n]
        ELSE Field(items[n].name, "query", FALSE, "")]

is_api_view(callback) == callback.cls # "None"

\* Nested dictionary insertion.  Walking into, or assigning into, a value
\* that is a Link and not a dictionary is a TypeError.
RECURSIVE insert_into(_, _, _)
insert_into(target, keys_, value) ==
    IF target.kind # "dict" THEN Raise("TypeError")
    ELSE IF Len(keys_) = 1
    THEN Return(Dict((keys_[1] :> value) @@ target.items))
    ELSE LET key == keys_[1]
             child == IF key \in DOMAIN target.items
                      THEN target.items[key] ELSE EmptyDict
             r == insert_into(child, Tail(keys_), value)
         IN  IF r.raised THEN r
             ELSE Return(Dict((key :> r.value) @@ target.items))

is_custom_action(action) ==
    action \notin { "retrieve", "list", "create", "update", "partial_update",
                    "destroy" }

\* Mutant: every GET of a plain view is taken for a list view.
is_list_view_any_get(path, method, view_) ==
    IF view_.has_action THEN view_.action = "list"
    ELSE lower(method) = "get"

is_list_view(path, method, view_) ==
    IF view_.has_action THEN view_.action = "list"
    ELSE IF lower(method) # "get" THEN FALSE
    ELSE LET path_components == split(strip(path, "/"), "/")
         IN  ~ (\E n \in 1..Len(path_components[Len(path_components)]) :
                    path_components[Len(path_components)][n] = "{")

method_priority(method) ==
    CASE method = "GET" -> 0 [] method = "POST" -> 1 [] method = "PUT" -> 2
      [] method = "PATCH" -> 3 [] method = "DELETE" -> 4 [] OTHER -> 5

\* Mutant: the method no longer takes part in the ordering.
endpoint_ordering_by_path(endpoint) == << endpoint.path, 0 >>

endpoint_ordering(endpoint) ==
    << endpoint.path, method_priority(endpoint.method) >>

\* k1 <= k2 for the (path, method_priority) tuples
key_le(k1, k2) ==
    \/ str_lt(k1[1], k2[1])
    \/ k1[1] = k2[1] /\ k1[2] <= k2[2]

\* sorted(api_endpoints, key=endpoint_ordering): a stable sort
RECURSIVE sorted(_)
sorted(s) ==
    IF s = <<>> THEN <<>>
    ELSE LET front == sorted(SubSeq(s, 1, Len(s) - 1))
             e == s[Len(s)]
             n == Cardinality({ k \in 1..Len(front) :
                     key_le(endpoint_ordering(front[k]), endpoint_ordering(e)) })
         IN  SubSeq(front, 1, n) \o << e >> \o SubSeq(front, n + 1, Len(front))

(***************************************************************************)
(* EndpointInspector                                                       *)
(***************************************************************************)
\* django's simplify_regex: groups become <name> / <var>, the regex
\* characters are dropped, and the result starts with a slash.
RECURSIVE replace_groups(_)
replace_groups(regex) ==
    IF regex = <<>> THEN <<>>
    ELSE (CASE Head(regex) = "(?P<" -> << "<" >>
            [] Head(regex) = ">...)" -> << ">" >>
            [] Head(regex) = "(...)" -> << "<" >> \o var \o << ">" >>
            [] OTHER -> << Head(regex) >>) \o replace_groups(Tail(regex))

simplify_regex(pattern) ==
    LET cleaned ==
            replace(replace_slashes(replace(replace(replace(
                replace_groups(pattern), "^", <<>>), "$", <<>>), "?", <<>>)),
                "\\", <<>>)
    IN  IF startswith(cleaned, << "/" >>) THEN cleaned ELSE << "/" >> \o cleaned

get_path_from_regex(path_regex) ==
    replace(replace(simplify_regex(path_regex), "<", << "{" >>), ">", << "}" >>)

should_include_endpoint(path, callback) ==
    IF ~ is_api_view(callback) THEN FALSE
    ELSE IF \/ endswith(path, << ".", "{" >> \o format \o << "}" >>)
            \/ endswith(path, << ".", "{" >> \o format \o << "}", "/" >>)
    THEN FALSE
    ELSE TRUE

get_allowed_methods(callback) ==
    IF callback.has_actions
    THEN [n \in 1..Len(callback.actions) |-> upper(callback.actions[n][1])]
    ELSE SelectSeq(ViewClass(callback.cls).allowed_methods,
                   LAMBDA method : method \notin { "OPTIONS", "HEAD" })

Endpoint(path, method, callback) ==
    [path |-> path, method |-> method, callback |-> callback]

RECURSIVE get_api_endpoints(_, _)
RECURSIVE collect_endpoints(_, _, _)
\* the loop of get_api_endpoints over the first n patterns
collect_endpoints(patterns_, prefix, n) ==
    IF n = 0 THEN <<>>
    ELSE LET pattern == patterns_[n]
             path_regex == prefix \o pattern.regex
             path == get_path_from_regex(path_regex)
             methods == get_allowed_methods(pattern.callback)
         IN  collect_endpoints(patterns_, prefix, n - 1) \o
             (IF pattern.kind = "RegexURLPattern"
              THEN IF should_include_endpoint(path, pattern.callback)
                   THEN [k \in 1..Len(methods) |->
                            Endpoint(path, methods[k], pattern.callback)]
                   ELSE <<>>
              ELSE IF pattern.kind = "RegexURLResolver"
              THEN get_api_endpoints(pattern.url_patterns, path_regex)
              ELSE <<>>)

get_api_endpoints(patterns_, prefix) ==
    sorted(collect_endpoints(patterns_, prefix, Len(patterns_)))

(***************************************************************************)
(* The view layer the generator calls into.                                *)
(***************************************************************************)
\* clone_request(request, method): the same request with another method
clone_request(request_, method) ==
    Some([user |-> request_.val.user, method |-> method])

has_permission(permission, request_) ==
    CASE permission = "AllowAny" -> TRUE
      [] permission = "IsAuthenticated" -> request_.val.user # "anonymous"
      [] permission = "IsAdminUser" -> request_.val.user = "admin"
      [] permission = "IsAuthenticatedOrReadOnly" ->
            \/ request_.val.method \in { "GET", "HEAD", "OPTIONS" }
            \/ request_.val.user # "anonymous"

\* view.check_permissions(request): returns, or raises an APIException
\* (NotAuthenticated / PermissionDenied) at the first permission that fails.
check_permissions(view_, request_) ==
    IF \A n \in 1..Len(view_.permission_classes) :
           has_permission(view_.permission_classes[n], request_)
    THEN Return(None)
    ELSE Raise("APIException")

\* paginator.get_fields(view) / filter_backend().get_fields(view)
get_fields(cls) ==
    CASE cls = "PageNumberPagination" ->
            << PlainString(<< "p", "a", "g", "e" >>) >>
      [] cls = "SearchFilter" ->
            << PlainString(<< "s", "e", "a", "r", "c", "h" >>) >>
      [] cls = "OrderingFilter" ->
            << Field(<< "o", "r", "d", "e", "r", "i", "n", "g" >>, "query",
                     FALSE, "string") >>

\* The classes of serializer fields, most derived first.
mro(cls) ==
    CASE cls = "IntegerField" -> << "IntegerField", "Field" >>
      [] cls = "CharField" -> << "CharField", "Field" >>
      [] cls = "EmailField" -> << "EmailField", "CharField", "Field" >>
      [] cls = "HiddenField" -> << "HiddenField", "Field" >>

types_lookup(cls) ==
    LET known == { "Field", "IntegerField", "FloatField", "DecimalField",
                   "BooleanField", "FileField", "MultipleChoiceField",
                   "ManyRelatedField", "Serializer", "ListSerializer" }
        first == CHOOSE n \in 1..Len(mro(cls)) :
                    /\ mro(cls)[n] \in known
                    /\ \A k \in 1..(n - 1) : mro(cls)[k] \notin known
        found == mro(cls)[first]
    IN  CASE found = "Field" -> "string"
          [] found = "IntegerField" -> "integer"
          [] found \in { "FloatField", "DecimalField" } -> "number"
          [] found = "BooleanField" -> "boolean"
          [] found = "FileField" -> "file"
          [] found \in { "MultipleChoiceField", "ManyRelatedField",
                         "ListSerializer" } -> "array"
          [] found = "Serializer" -> "object"

\* uritemplate.variables(path): the names between braces, each once, in
\* order of first appearance.
RECURSIVE variables(_)
variables(path) ==
    IF \A n \in 1..Len(path) : path[n] # "{" THEN <<>>
    ELSE LET open == CHOOSE n \in 1..Len(path) :
                        path[n] = "{" /\ \A k \in 1..(n - 1) : path[k] # "{"
             rest == SubSeq(path, open + 1, Len(path))
         IN  IF \A n \in 1..Len(rest) : rest[n] # "}" THEN <<>>
             ELSE LET close == CHOOSE n \in 1..Len(rest) :
                        rest[n] = "}" /\ \A k \in 1..(n - 1) : rest[k] # "}"
                      name == SubSeq(rest, 1, close - 1)
                      more == variables(SubSeq(rest, close + 1, Len(rest)))
                  IN  IF name = <<>> THEN more
                      ELSE << name >> \o SelectSeq(more, LAMBDA v : v # name)

\* urlparse.urljoin(base, url) for an absolute base and a path
urljoin(base, url_) ==
    IF base = None THEN url_
    ELSE IF url_ = <<>> THEN base.val
    ELSE IF Head(url_) = "/"
    THEN LET b == base.val
             host == CHOOSE n \in 1..Len(b) :
                        /\ n + 2 <= Len(b)
                        /\ SubSeq(b, n, n + 2) = << ":", "/", "/" >>
                        /\ \A k \in 1..(n - 1) : b[k] # ":"
             root == CHOOSE n \in (host + 3)..Len(b) :
                        b[n] = "/" /\ \A k \in (host + 3)..(n - 1) : b[k] # "/"
         IN  SubSeq(b, 1, root - 1) \o url_
    ELSE LET b == base.val
             last == CHOOSE n \in 1..Len(b) :
                        b[n] = "/" /\ \A k \in (n + 1)..Len(b) : b[k] # "/"
         IN  SubSeq(b, 1, last) \o url_

(***************************************************************************)
(* SchemaGenerator                                                         *)
(***************************************************************************)
default_mapping ==
    [get |-> "retrieve", post |-> "create", put |-> "update",
     patch |-> "partial_update", delete |-> "destroy"]

\* actions.get(method): the action mapped to the method, or None
actions_get(actions, method) ==
    IF \E n \in 1..Len(actions) : actions[n][1] = method
    THEN actions[CHOOSE n \in 1..Len(actions) : actions[n][1] = method][2]
    ELSE "None"

RECURSIVE setattrs(_, _)
setattrs(obj, initkwargs) ==
    IF initkwargs = <<>> THEN obj
    ELSE setattrs([obj EXCEPT ![initkwargs[1][1]] = initkwargs[1][2]],
                  Tail(initkwargs))

create_view(callback, method, request_) ==
    LET cls == ViewClass(callback.cls)
        instance ==
            setattrs(
                [cls |-> callback.cls,
                 exclude_from_schema |-> cls.exclude_from_schema,
                 permission_classes |-> cls.permission_classes,
                 serializer |-> cls.serializer,
                 pagination_class |-> cls.pagination_class,
                 filter_backends |-> cls.filter_backends,
                 parser_classes |-> cls.parser_classes,
                 args |-> <<>>,
                 kwargs |-> <<>>,
                 format_kwarg |-> None,
                 request |-> None,
                 action_map |-> None,
                 has_action |-> FALSE,
                 action |-> "None"],
                callback.initkwargs)
        with_actions ==
            IF callback.has_actions
            THEN [instance EXCEPT
                    !.action_map = Some(callback.actions),
                    !.has_action = TRUE,
                    !.action = IF method = "OPTIONS" THEN "metadata"
                               ELSE actions_get(callback.actions, lower(method))]
            ELSE instance
    IN  IF request_ # None
        THEN [with_actions EXCEPT !.request = clone_request(request_, method)]
        ELSE with_actions

\* What should_include_view returns (or raises), and whether it called the
\* view's check_permissions hook to reach it.
Included(value, hook) ==
    [raised |-> FALSE, error |-> "None", value |-> value, checked |-> hook]

\* Mutant: the permissions of the view are never consulted.
should_include_view_unchecked(path, method, view_) ==
    IF view_.exclude_from_schema THEN Included(FALSE, FALSE)
    ELSE Included(TRUE, FALSE)

\* Mutant: no except clause, the APIException leaves should_include_view.
should_include_view_uncaught(path, method, view_) ==
    IF view_.exclude_from_schema THEN Included(FALSE, FALSE)
    ELSE IF view_.request = None THEN Included(TRUE, FALSE)
    ELSE LET outcome == check_permissions(view_, view_.request)
         IN  IF outcome.raised
             THEN [raised |-> TRUE, error |-> outcome.error, value |-> FALSE,
                   checked |-> TRUE]
             ELSE Included(TRUE, TRUE)

\* Mutant: a view without a request is left out.
should_include_view_needs_request(path, method, view_) ==
    IF view_.exclude_from_schema THEN Included(FALSE, FALSE)
    ELSE IF view_.request = None THEN Included(FALSE, FALSE)
    ELSE IF check_permissions(view_, view_.request).raised
    THEN Included(FALSE, TRUE)
    ELSE Included(TRUE, TRUE)

\* Mutant: the permission check is made first, the exclusion test after it.
should_include_view_permission_first(path, method, view_) ==
    IF view_.request # None
    THEN IF check_permissions(view_, view_.request).raised
         THEN Included(FALSE, TRUE)
         ELSE Included(~ view_.exclude_from_schema, TRUE)
    ELSE Included(~ view_.exclude_from_schema, FALSE)

should_include_view(path, method, view_) ==
    IF view_.exclude_from_schema THEN Included(FALSE, FALSE)
    ELSE IF view_.request = None THEN Included(TRUE, FALSE)
    ELSE LET outcome == check_permissions(view_, view_.request)
         IN  IF outcome.raised /\ outcome.error = "APIException"
             THEN Included(FALSE, TRUE)
             ELSE IF outcome.raised
             THEN [raised |-> TRUE, error |-> outcome.error, value |-> FALSE,
                   checked |-> TRUE]
             ELSE Included(TRUE, TRUE)

get_encoding(path, method, view_) ==
    LET supported_media_types ==
            { "application/json", "application/x-www-form-urlencoded",
              "multipart/form-data" }
        parser_classes == view_.parser_classes
        hits == { n \in 1..Len(parser_classes) :
                    \/ parser_classes[n] \in supported_media_types
                    \/ parser_classes[n] = "*/*" }
    IN  IF hits = {} THEN "None"
        ELSE LET first == CHOOSE n \in hits : \A k \in hits : n <= k
             IN  IF parser_classes[first] = "*/*"
                 THEN "application/octet-stream"
                 ELSE parser_classes[first]

\* Mutant: path fields are not marked required.
get_path_fields_optional(path, method, view_) ==
    LET names == variables(path)
    IN  [n \in 1..Len(names) |-> Field(names[n], "path", FALSE, "")]

get_path_fields(path, method, view_) ==
    LET names == variables(path)
    IN  [n \in 1..Len(names) |-> Field(names[n], "path", TRUE, "")]

\* Mutant: PATCH keeps the requiredness of the declared field.
get_serializer_fields_keeps_required(path, method, view_) ==
    IF method \notin { "PUT", "PATCH", "POST" } THEN <<>>
    ELSE IF view_.serializer.kind = "none" THEN <<>>
    ELSE IF view_.serializer.kind = "ListSerializer"
    THEN << Field(data, "body", TRUE, "array") >>
    ELSE IF view_.serializer.kind # "Serializer" THEN <<>>
    ELSE LET declared ==
                SelectSeq(view_.serializer.fields,
                          LAMBDA f : ~ (f.read_only \/ f.cls = "HiddenField"))
         IN  [n \in 1..Len(declared) |->
                Field(declared[n].source, "form", declared[n].required,
                      types_lookup(declared[n].cls))]

get_serializer_fields(path, method, view_) ==
    IF method \notin { "PUT", "PATCH", "POST" } THEN <<>>
    ELSE IF view_.serializer.kind = "none" THEN <<>>
    ELSE IF view_.serializer.kind = "ListSerializer"
    THEN << Field(data, "body", TRUE, "array") >>
    ELSE IF view_.serializer.kind # "Serializer" THEN <<>>
    ELSE LET declared ==
                SelectSeq(view_.serializer.fields,
                          LAMBDA f : ~ (f.read_only \/ f.cls = "HiddenField"))
         IN  [n \in 1..Len(declared) |->
                Field(declared[n].source, "form",
                      declared[n].required /\ method # "PATCH",
                      types_lookup(declared[n].cls))]

get_pagination_fields(path, method, view_) ==
    IF ~ is_list_view(path, method, view_) THEN <<>>
    ELSE IF view_.pagination_class = "None" THEN <<>>
    ELSE as_query_fields(get_fields(view_.pagination_class))

RECURSIVE filter_fields(_)
filter_fields(filter_backends) ==
    IF filter_backends = <<>> THEN <<>>
    ELSE as_query_fields(get_fields(Head(filter_backends)))
            \o filter_fields(Tail(filter_backends))

get_filter_fields(path, method, view_) ==
    IF ~ is_list_view(path, method, view_) THEN <<>>
    ELSE IF view_.filter_backends = <<>> THEN <<>>
    ELSE filter_fields(view_.filter_backends)

\* get_link; the description of the Link is not modelled.
get_link(self_url, path, method, view_) ==
    LET fields == get_path_fields(path, method, view_)
                    \o get_serializer_fields(path, method, view_)
                    \o get_pagination_fields(path, method, view_)
                    \o get_filter_fields(path, method, view_)
        encoding ==
            IF \E n \in 1..Len(fields) : fields[n].location \in { "form", "body" }
            THEN get_encoding(path, method, view_)
            ELSE "None"
        relative == IF self_url # None /\ self_url.val # <<>>
                       /\ startswith(path, << "/" >>)
                    THEN Tail(path) ELSE path
    IN  [kind |-> "Link",
         url |-> urljoin(self_url, relative),
         action |-> lower(method),
         encoding |-> encoding,
         fields |-> fields]

\* mapping[key]: the value, or a KeyError
getitem(mapping, key) ==
    IF key \in DOMAIN mapping THEN Return(mapping[key]) ELSE Raise("KeyError")

\* The text of an action name, as a key of the Document.
chars(action) ==
    CASE action = "list" -> << "l", "i", "s", "t" >>
      [] action = "create" -> << "c", "r", "e", "a", "t", "e" >>
      [] action = "retrieve" -> << "r", "e", "t", "r", "i", "e", "v", "e" >>
      [] action = "update" -> << "u", "p", "d", "a", "t", "e" >>
      [] action = "partial_update" ->
            << "p", "a", "r", "t", "i", "a", "l", "_",
               "u", "p", "d", "a", "t", "e" >>
      [] action = "destroy" -> << "d", "e", "s", "t", "r", "o", "y" >>
      [] action = "metadata" -> << "m", "e", "t", "a", "d", "a", "t", "a" >>
      [] action = "star" -> star
      [] action = "groups" -> groups
      [] OTHER -> << action >>

\* Mutant: a custom single-method action is appended to the components
\* and does not replace the last one.
get_keys_appends_custom(path, method, view_) ==
    LET action ==
            IF view_.has_action THEN Return(view_.action)
            ELSE IF is_list_view(path, method, view_) THEN Return("list")
            ELSE getitem(default_mapping, lower(method))
        named_path_components ==
            SelectSeq(split(strip(path, "/"), "/"),
                      LAMBDA component :
                          \A n \in 1..Len(component) : component[n] # "{")
        remapped == getitem(default_mapping, lower(method))
    IN  IF action.raised THEN action
        ELSE IF is_custom_action(action.value) /\ Len(view_.action_map.val) > 1
        THEN IF remapped.raised THEN remapped
             ELSE Return(named_path_components \o << chars(remapped.value) >>)
        ELSE Return(named_path_components \o << chars(action.value) >>)

get_keys(path, method, view_) ==
    LET action ==
            IF view_.has_action THEN Return(view_.action)
            ELSE IF is_list_view(path, method, view_) THEN Return("list")
            ELSE getitem(default_mapping, lower(method))
        named_path_components ==
            SelectSeq(split(strip(path, "/"), "/"),
                      LAMBDA component :
                          \A n \in 1..Len(component) : component[n] # "{")
        remapped == getitem(default_mapping, lower(method))
    IN  IF action.raised THEN action
        ELSE IF is_custom_action(action.value)
        THEN IF Len(view_.action_map.val) > 1
             THEN IF remapped.raised THEN remapped
                  ELSE Return(named_path_components
                                \o << chars(remapped.value) >>)
             ELSE Return(SubSeq(named_path_components, 1,
                                Len(named_path_components) - 1)
                            \o << chars(action.value) >>)
        ELSE Return(named_path_components \o << chars(action.value) >>)

(***************************************************************************)
(* The generator as a state machine: construction, get_schema calls (made  *)
(* directly or by the schema view), the loop of get_links, and the return. *)
(***************************************************************************)
\* SchemaGenerator.__init__: url gets its trailing slash
init_url(url_) ==
    IF url_ # None /\ url_.val # <<>> /\ ~ endswith(url_.val, << "/" >>)
    THEN Some(url_.val \o << "/" >>)
    ELSE url_

Generators ==
    { [title |-> None, url |-> None],
      [title |-> Some(<< "A", "P", "I" >>),
       url |-> Some(<< "h", "t", "t", "p", ":", "/", "/", "h", "/",
                       "a", "p", "i" >>)] }

Init ==
    /\ patterns \in Trees
    /\ \E g \in Generators :
          /\ title = g.title
          /\ url = init_url(g.url)
    /\ endpoints = None
    /\ pc = "idle"
    /\ caller = "none"
    /\ request = None
    /\ links = EmptyDict
    /\ idx = 0
    /\ view = None
    /\ included = FALSE
    /\ checked = FALSE
    /\ link = None
    /\ keys = <<>>
    /\ result = None
    /\ response = None
    /\ calls = 0
    /\ inspections = 0

\* Mutant: get_schema runs the endpoint inspector on every call.
enter_get_schema_uncached(request_, who) ==
    /\ calls' = calls + 1
    /\ caller' = who
    /\ request' = request_
    /\ endpoints' = Some(get_api_endpoints(patterns, <<>>))
    /\ inspections' = inspections + 1
    /\ pc' = "get_links"
    /\ links' = EmptyDict
    /\ idx' = 1
    /\ view' = None
    /\ included' = FALSE
    /\ checked' = FALSE
    /\ link' = None
    /\ keys' = <<>>
    /\ result' = None
    /\ response' = None
    /\ UNCHANGED << patterns, title, url >>

\* Mutant: the mapping of get_links is kept from one call to the next.
enter_get_schema_keeps_links(request_, who) ==
    /\ calls' = calls + 1
    /\ caller' = who
    /\ request' = request_
    /\ IF endpoints = None
       THEN /\ endpoints' = Some(get_api_endpoints(patterns, <<>>))
            /\ inspections' = inspections + 1
       ELSE UNCHANGED << endpoints, inspections >>
    /\ pc' = "get_links"
    /\ links' = links
    /\ idx' = 1
    /\ view' = None
    /\ included' = FALSE
    /\ checked' = FALSE
    /\ link' = None
    /\ keys' = <<>>
    /\ result' = None
    /\ response' = None
    /\ UNCHANGED << patterns, title, url >>

\* get_schema up to the call of get_links
enter_get_schema(request_, who) ==
    /\ calls' = calls + 1
    /\ caller' = who
    /\ request' = request_
    /\ IF endpoints = None
       THEN /\ endpoints' = Some(get_api_endpoints(patterns, <<>>))
            /\ inspections' = inspections + 1
       ELSE UNCHANGED << endpoints, inspections >>
    /\ pc' = "get_links"
    /\ links' = EmptyDict
    /\ idx' = 1
    /\ view' = None
    /\ included' = FALSE
    /\ checked' = FALSE
    /\ link' = None
    /\ keys' = <<>>
    /\ result' = None
    /\ response' = None
    /\ UNCHANGED << patterns, title, url >>

\* generator.get_schema(request) called by the host, with or without a request
get_schema ==
    /\ pc \in { "idle", "returned", "raised" }
    /\ calls < MaxCalls
    /\ \E r \in Requests \cup { None } : enter_get_schema(r, "direct")

\* SchemaView.get(request): calls generator.get_schema(request)
SchemaView_get ==
    /\ pc \in { "idle", "returned", "raised" }
    /\ calls < MaxCalls
    /\ \E r \in Requests : enter_get_schema(r, "SchemaView")

\* One pass of the loop of get_links.  An exception leaves get_links and
\* get_schema; the schema view does not catch it either.
get_links ==
    /\ pc = "get_links"
    /\ idx <= Len(endpoints.val)
    /\ LET endpoint == endpoints.val[idx]
           path == endpoint.path
           method == endpoint.method
           v == create_view(endpoint.callback, method, request)
           inc == should_include_view(path, method, v)
           l == get_link(url, path, method, v)
           k == get_keys(path, method, v)
           into == insert_into(links, k.value, l)
       IN  /\ view' = v
           /\ included' = inc.value
           /\ checked' = inc.checked
           /\ IF inc.raised
              THEN /\ pc' = "raised"
                   /\ result' = Raise(inc.error)
                   /\ response' = IF caller = "SchemaView"
                                  THEN Raise(inc.error) ELSE None
                   /\ UNCHANGED << link, keys, links, idx >>
              ELSE IF ~ inc.value
              THEN /\ idx' = idx + 1
                   /\ UNCHANGED << link, keys, links, pc, result, response >>
              ELSE IF k.raised
              THEN /\ link' = l
                   /\ pc' = "raised"
                   /\ result' = k
                   /\ response' = IF caller = "SchemaView" THEN k ELSE None
                   /\ UNCHANGED << keys, links, idx >>
              ELSE IF into.raised
              THEN /\ link' = l
                   /\ keys' = k.value
                   /\ pc' = "raised"
                   /\ result' = into
                   /\ response' = IF caller = "SchemaView" THEN into ELSE None
                   /\ UNCHANGED << links, idx >>
              ELSE /\ link' = l
                   /\ keys' = k.value
                   /\ links' = into.value
                   /\ idx' = idx + 1
                   /\ UNCHANGED << pc, result, response >>
    /\ UNCHANGED << patterns, title, url, endpoints, caller, request, calls,
                    inspections >>

Document(title_, url_, content) ==
    [kind |-> "Document", title |-> title_, url |-> url_, content |-> content]

\* Mutant: get_schema returns a Document even when there are no links.
return_schema_always_document ==
    /\ pc = "get_links"
    /\ idx > Len(endpoints.val)
    /\ result' = Return(Some(Document(title, url, links)))
    /\ response' = IF caller # "SchemaView" THEN None
                   ELSE Return(Some(Document(title, url, links)))
    /\ pc' = "returned"
    /\ UNCHANGED << patterns, title, url, endpoints, caller, request, links,
                    idx, view, included, checked, link, keys, calls,
                    inspections >>

\* The end of get_links and of get_schema; SchemaView.get answers with the
\* schema, or raises PermissionDenied when there is none.
return_schema ==
    /\ pc = "get_links"
    /\ idx > Len(endpoints.val)
    /\ LET schema == IF links.items = <<>> THEN None
                     ELSE Some(Document(title, url, links))
       IN  /\ result' = Return(schema)
           /\ response' = IF caller # "SchemaView" THEN None
                          ELSE IF schema = None THEN Raise("PermissionDenied")
                          ELSE Return(schema)
    /\ pc' = "returned"
    /\ UNCHANGED << patterns, title, url, endpoints, caller, request, links,
                    idx, view, included, checked, link, keys, calls,
                    inspections >>

Next == get_schema \/ SchemaView_get \/ get_links \/ return_schema

Spec == Init /\ [][Next]_vars

(***************************************************************************)
(* What the claims speak about: the endpoint processed by the last pass of *)
(* the loop, and what the generator computes for endpoint j of the list    *)
(* under the request of the running call.                                  *)
(***************************************************************************)
Processed == pc \in { "get_links", "returned" } /\ idx > 1
LastEndpoint == endpoints.val[idx - 1]

ViewOf(j) ==
    create_view(endpoints.val[j].callback, endpoints.val[j].method, request)
KeysOf(j) ==
    get_keys(endpoints.val[j].path, endpoints.val[j].method, ViewOf(j))
LinkOf(j) ==
    get_link(url, endpoints.val[j].path, endpoints.val[j].method, ViewOf(j))

\* The value found in a nested mapping by following the keys, if any.
RECURSIVE Lookup(_, _)
Lookup(target, ks) ==
    IF ks = <<>> THEN Some(target)
    ELSE IF target.kind # "dict" \/ Head(ks) \notin DOMAIN target.items
    THEN None
    ELSE Lookup(target.items[Head(ks)], Tail(ks))

IsPrefix(a, b) == Len(a) <= Len(b) /\ SubSeq(b, 1, Len(a)) = a

(***************************************************************************)
(* C1                                                                      *)
(***************************************************************************)
SpecPriority(method) ==
    CASE method = "GET" -> 0 [] method = "POST" -> 1 [] method = "PUT" -> 2
      [] method = "PATCH" -> 3 [] method = "DELETE" -> 4 [] OTHER -> 5

\* The (path, method) pairs the routing tree declares, in tree order: one
\* per allowed method of every pattern node that is an API view and has no
\* format suffix, resolver nodes flattened with their prefix.
RECURSIVE Declared(_, _)
Declared(nodes, prefix) ==
    IF nodes = <<>> THEN <<>>
    ELSE LET node == Head(nodes)
             path == get_path_from_regex(prefix \o node.regex)
             methods == get_allowed_methods(node.callback)
         IN  (IF node.kind = "RegexURLResolver"
              THEN Declared(node.url_patterns, prefix \o node.regex)
              ELSE IF /\ node.kind = "RegexURLPattern"
                      /\ should_include_endpoint(path, node.callback)
              THEN [k \in 1..Len(methods) |-> << path, methods[k] >>]
              ELSE <<>>)
             \o Declared(Tail(nodes), prefix)

Occurrences(seq, x) == Cardinality({ n \in 1..Len(seq) : seq[n] = x })

PathMethods(es) == [n \in 1..Len(es) |-> << es[n].path, es[n].method >>]

\* C1: the endpoint list the generator holds when get_links starts is sorted
\* by (path, method priority), with GET=0, POST=1, PUT=2, PATCH=3, DELETE=4
\* and any other method 5, and holds every (path, method) pair exactly as
\* often as the routing tree declares it.
C1_SortedAndNoExtraDuplicates ==
    (pc = "get_links" /\ idx = 1) =>
        LET es == endpoints.val
            declared == Declared(patterns, <<>>)
        IN  /\ \A i, j \in 1..Len(es) :
                 i < j =>
                    \/ str_lt(es[i].path, es[j].path)
                    \/ /\ es[i].path = es[j].path
                       /\ SpecPriority(es[i].method) <= SpecPriority(es[j].method)
            /\ Len(es) = Len(declared)
            /\ \A n \in 1..Len(declared) :
                 Occurrences(PathMethods(es), declared[n])
                    = Occurrences(declared, declared[n])

\* C1 witness: a tree that declares a (path, method) pair twice and whose
\* endpoints were not in sorted order as declared.
C1_Witness ==
    /\ pc = "get_links"
    /\ idx = 1
    /\ PathMethods(endpoints.val) # Declared(patterns, <<>>)
    /\ \E n \in 1..Len(endpoints.val) :
          Occurrences(PathMethods(endpoints.val),
                      PathMethods(endpoints.val)[n]) > 1
    /\ \E n \in 1..Len(endpoints.val) :
          SpecPriority(endpoints.val[n].method) = 5

(***************************************************************************)
(* C2 - C5: the filters                                                    *)
(***************************************************************************)
\* The view of endpoint j carries the exclusion flag.
Excluded(j) == ViewOf(j).exclude_from_schema

\* The call has a request and one of the view's permissions refuses it for
\* the method of endpoint j.
Denied(j) ==
    /\ request # None
    /\ \E n \in 1..Len(ViewOf(j).permission_classes) :
          ~ has_permission(ViewOf(j).permission_classes[n],
                           clone_request(request, endpoints.val[j].method))

PassedFilters(j) == ~ Excluded(j) /\ ~ Denied(j)

\* The Link of endpoint j is in the Document, under the keys of endpoint j.
Present(j) ==
    /\ ~ KeysOf(j).raised
    /\ Lookup(links, KeysOf(j).value) = Some(LinkOf(j))

\* The Links of a nested mapping, each with the keys that lead to it.
RECURSIVE Leaves(_, _)
Leaves(target, prefix) ==
    IF target.kind # "dict" THEN { << prefix, target >> }
    ELSE UNION { Leaves(target.items[k], Append(prefix, k)) :
                    k \in DOMAIN target.items }

\* C2 as stated: when get_links has completed, the Link of an endpoint is
\* in the Document if and only if the endpoint passed both filters.
C2_PresentIffPassed ==
    pc = "returned" =>
        \A j \in 1..Len(endpoints.val) : Present(j) <=> PassedFilters(j)

\* C2 as amended: when get_links has completed, every Link of the Document
\* is the Link of an endpoint that passed both filters, and every endpoint
\* that passed both filters has its Link in the Document under its keys
\* unless a later such endpoint was inserted at the same keys or at a
\* prefix of them.
C2_PresentUnlessOverwritten ==
    pc = "returned" =>
        LET all == 1..Len(endpoints.val)
            passed == [j \in all |-> PassedFilters(j)]
            at == [j \in all |-> KeysOf(j).value]
            made == [j \in all |-> LinkOf(j)]
            found == [j \in all |-> Lookup(links, at[j])]
        IN  /\ \A leaf \in Leaves(links, <<>>) :
                  \E j \in all :
                      passed[j] /\ at[j] = leaf[1] /\ made[j] = leaf[2]
            /\ \A j \in all :
                  ( /\ passed[j]
                    /\ \A k \in all :
                          (k > j /\ passed[k]) => ~ IsPrefix(at[k], at[j]) )
                  => found[j] = Some(made[j])
            /\ \A j \in all :
                  ( /\ ~ passed[j]
                    /\ \A k \in all : passed[k] => at[k] # at[j] )
                  => found[j] # Some(made[j])

\* C2 witness: a call with a request has completed; one endpoint was
\* refused and is absent, one is excluded, one passed and is present.
C2_Witness ==
    /\ pc = "returned"
    /\ request # None
    /\ \E j \in 1..Len(endpoints.val) :
          ~ Excluded(j) /\ Denied(j) /\ ~ Present(j)
    /\ \E j \in 1..Len(endpoints.val) : Excluded(j) /\ ~ Present(j)
    /\ \E j \in 1..Len(endpoints.val) : PassedFilters(j) /\ Present(j)

\* C3: when the permission check of the endpoint being processed fails,
\* the pass adds nothing to the mapping, raises nothing, and the loop goes
\* on to the next endpoint.
C3_DenialSkipsAndContinues ==
    [][ ( /\ pc = "get_links"
          /\ idx <= Len(endpoints.val)
          /\ ~ Excluded(idx)
          /\ Denied(idx) )
        => ( /\ pc' = "get_links"
             /\ idx' = idx + 1
             /\ links' = links
             /\ result' = result
             /\ response' = response
             /\ checked'
             /\ ~ included' ) ]_vars

\* C3 witness: after an endpoint was refused, a later endpoint of the same
\* call was processed and its Link inserted.
C3_Witness ==
    /\ Processed
    /\ included
    /\ Present(idx - 1)
    /\ \E j \in 1..(idx - 2) : ~ Excluded(j) /\ Denied(j)

\* C4: an endpoint whose view carries the exclusion flag adds nothing to
\* the mapping, with or without a request, and its check_permissions hook
\* is not called.
C4_ExcludedNeverLinked ==
    [][ ( /\ pc = "get_links"
          /\ idx <= Len(endpoints.val)
          /\ Excluded(idx) )
        => ( /\ links' = links
             /\ ~ included'
             /\ ~ checked'
             /\ pc' = "get_links"
             /\ idx' = idx + 1 ) ]_vars

\* C4 witness: an excluded view was skipped in a call whose request its
\* permissions would have accepted.
C4_Witness ==
    /\ Processed
    /\ view.exclude_from_schema
    /\ ~ included
    /\ request # None
    /\ ~ Denied(idx - 1)

\* C5 as stated: in a call without a request, every endpoint whose view is
\* not excluded has its Link in the resulting Document.
C5_RequestlessAllPresent ==
    (pc = "returned" /\ request = None) =>
        \A j \in 1..Len(endpoints.val) : ~ Excluded(j) => Present(j)

\* C5 as amended: in a call without a request no permission check is made
\* and every endpoint whose view is not excluded is included and its Link
\* inserted under its keys; in the resulting Document that Link is found
\* there unless a later endpoint that is not excluded was inserted at the
\* same keys or at a prefix of them.
C5_RequestlessAllInserted ==
    request = None =>
        /\ view # None => ~ checked /\ (included <=> ~ view.exclude_from_schema)
        /\ (Processed /\ included) =>
              /\ link = LinkOf(idx - 1)
              /\ keys = KeysOf(idx - 1).value
              /\ Lookup(links, keys) = Some(link)
        /\ pc = "returned" =>
              LET all == 1..Len(endpoints.val)
                  excluded == [j \in all |-> Excluded(j)]
                  at == [j \in all |-> KeysOf(j).value]
              IN  \A j \in all :
                      ( /\ ~ excluded[j]
                        /\ \A k \in all :
                              (k > j /\ ~ excluded[k])
                                  => ~ IsPrefix(at[k], at[j]) )
                      => Lookup(links, at[j]) = Some(LinkOf(j))

\* C5 witness: a call without a request has returned a Document with the
\* Link of an endpoint that an anonymous request would have been refused,
\* and without the excluded view of the tree.
C5_Witness ==
    /\ pc = "returned"
    /\ request = None
    /\ \E j \in 1..Len(endpoints.val) : Excluded(j) /\ ~ Present(j)
    /\ \E j \in 1..Len(endpoints.val) :
          /\ ~ Excluded(j)
          /\ Present(j)
          /\ \E n \in 1..Len(ViewOf(j).permission_classes) :
                ~ has_permission(ViewOf(j).permission_classes[n],
                                 Some([user |-> "anonymous",
                                       method |-> endpoints.val[j].method]))

(***************************************************************************)
(* C6, C7: the fields of a Link                                            *)
(***************************************************************************)
FieldsAt(l, location) ==
    { n \in 1..Len(l.fields) : l.fields[n].location = location }

\* The fields a composite serializer declares for input.
InputFields(serializer) ==
    { n \in 1..Len(serializer.fields) :
        /\ ~ serializer.fields[n].read_only
        /\ serializer.fields[n].cls # "HiddenField" }

\* C6 as stated: every request body field of the Link of a PATCH endpoint
\* has required = False, whatever serializer the view returns.
C6_PatchNothingRequired ==
    (Processed /\ included /\ LastEndpoint.method = "PATCH") =>
        \A n \in FieldsAt(link, "form") \cup FieldsAt(link, "body") :
            ~ link.fields[n].required

\* C6 as amended: in the Link of a PATCH endpoint every field that comes
\* from a declared field of a composite serializer (location 'form') has
\* required = False, also when the declared field is required; the single
\* 'data' field that stands for a list serializer (location 'body') is
\* required.
C6_PatchFormFieldsOptional ==
    (Processed /\ included /\ LastEndpoint.method = "PATCH") =>
        /\ \A n \in FieldsAt(link, "form") : ~ link.fields[n].required
        /\ view.serializer.kind = "Serializer" =>
              /\ FieldsAt(link, "body") = {}
              /\ \A d \in InputFields(view.serializer) :
                    \E n \in FieldsAt(link, "form") :
                        link.fields[n].name = view.serializer.fields[d].source
        /\ view.serializer.kind = "ListSerializer" =>
              /\ FieldsAt(link, "form") = {}
              /\ Cardinality(FieldsAt(link, "body")) = 1
              /\ \A n \in FieldsAt(link, "body") :
                    link.fields[n].name = data /\ link.fields[n].required

\* C6 witness: the Link of a PATCH endpoint whose serializer declares a
\* required input field.
C6_Witness ==
    /\ Processed
    /\ included
    /\ LastEndpoint.method = "PATCH"
    /\ view.serializer.kind = "Serializer"
    /\ \E d \in InputFields(view.serializer) :
          /\ view.serializer.fields[d].required
          /\ \E n \in FieldsAt(link, "form") :
                /\ link.fields[n].name = view.serializer.fields[d].source
                /\ ~ link.fields[n].required

\* The names between an opening brace and the next closing brace.
TemplateVariables(path) ==
    { SubSeq(path, a + 1, b - 1) :
        << a, b >> \in { p \in (1..Len(path)) \X (1..Len(path)) :
                          /\ p[1] + 1 < p[2]
                          /\ path[p[1]] = "{"
                          /\ path[p[2]] = "}"
                          /\ \A n \in (p[1] + 1)..(p[2] - 1) :
                                path[n] \notin { "{", "}" } } }

\* C7: the fields of a Link with location 'path' are, one for one, the
\* template variables of the endpoint's path; each is required, and they
\* are the first fields of the Link.
C7_PathFieldsAreTemplateVariables ==
    (Processed /\ included) =>
        LET at_path == FieldsAt(link, "path")
            names == TemplateVariables(LastEndpoint.path)
        IN  /\ { link.fields[n].name : n \in at_path } = names
            /\ \A v \in names :
                  Cardinality({ n \in at_path : link.fields[n].name = v }) = 1
            /\ \A n \in at_path : link.fields[n].required
            /\ at_path = 1..Cardinality(names)

\* C7 witness: a Link for a path that names the same variable twice, with
\* one path field and other fields after it.
C7_Witness ==
    /\ Processed
    /\ included
    /\ Cardinality({ n \in 1..Len(LastEndpoint.path) :
                        LastEndpoint.path[n] = "{" }) = 2
    /\ Cardinality(FieldsAt(link, "path")) = 1
    /\ Len(link.fields) > 1

(***************************************************************************)
(* C8, C9: the keys                                                        *)
(***************************************************************************)
\* The path without its leading and trailing slashes.
Stripped(path) ==
    LET inner == { n \in 1..Len(path) : path[n] # "/" }
    IN  IF inner = {} THEN <<>>
        ELSE SubSeq(path, CHOOSE a \in inner : \A n \in inner : a <= n,
                          CHOOSE b \in inner : \A n \in inner : n <= b)

\* The segments between the slashes of a text, in order.
Segments(text) ==
    LET cuts == { n \in 1..Len(text) : text[n] = "/" } \cup { 0, Len(text) + 1 }
        cut(k) == CHOOSE c \in cuts : Cardinality({ d \in cuts : d < c }) = k
    IN  [k \in 1..(Cardinality(cuts) - 1) |->
            SubSeq(text, cut(k - 1) + 1, cut(k) - 1)]

HasVariable(segment) == \E n \in 1..Len(segment) : segment[n] = "{"

StaticSegments(path) ==
    SelectSeq(Segments(Stripped(path)), LAMBDA seg : ~ HasVariable(seg))

StandardActions ==
    { "retrieve", "list", "create", "update", "partial_update", "destroy" }

SpecMapping(method) ==
    CASE method = "POST" -> "create" [] method = "GET" -> "retrieve"
      [] method = "PUT" -> "update" [] method = "PATCH" -> "partial_update"
      [] method = "DELETE" -> "destroy"

\* The action the claim expects for a view whose action is not custom.
ExpectedAction(path, method, view_) ==
    IF view_.has_action THEN view_.action
    ELSE IF /\ method = "GET"
            /\ ~ HasVariable(Segments(Stripped(path))
                                [Len(Segments(Stripped(path)))])
    THEN "list"
    ELSE SpecMapping(method)

UserGroupsPath ==
    << "/" >> \o users \o << "/", "{" >> \o pk \o << "}", "/" >> \o groups
        \o << "/" >>

UserStarPath ==
    << "/" >> \o users \o << "/", "{" >> \o pk \o << "}", "/" >> \o star
        \o << "/" >>

C9_KeysOfCustomAction ==
    (Processed /\ included /\ view.has_action
        /\ view.action \notin StandardActions
        /\ Len(view.action_map.val) = 1) =>
        LET static == StaticSegments(LastEndpoint.path)
        IN  /\ keys = SubSeq(static, 1, Len(static) - 1)
                        \o << chars(view.action) >>
            /\ LastEndpoint.path = UserStarPath => keys = << users, star >>

\* C9 witness: the custom action star at /users/{pk}/star/ was given its
\* keys.
C9_Witness ==
    /\ Processed
    /\ included
    /\ view.has_action
    /\ view.action = "star"
    /\ LastEndpoint.path = UserStarPath
    /\ keys = << users, star >>

(***************************************************************************)
(* C10: the result                                                         *)
(***************************************************************************)
\* C10: get_schema returns None exactly when no endpoint passed the
\* filters, that is when the mapping built by get_links is empty; otherwise
\* it returns a Document with the generator's title and url and the
\* mapping as content.  The schema view raises PermissionDenied for None
\* and answers with the Document otherwise.
C10_NoneIffNoLinks ==
    pc = "returned" =>
        /\ ~ result.raised
        /\ result.value = None <=> links = EmptyDict
        /\ result.value = None <=>
              \A j \in 1..Len(endpoints.val) : ~ PassedFilters(j)
        /\ result.value # None =>
              /\ result.value.val.kind = "Document"
              /\ result.value.val.title = title
              /\ result.value.val.url = url
              /\ result.value.val.content = links
              /\ Leaves(links, <<>>) # {}
        /\ caller = "SchemaView" =>
              response = IF result.value = None
                         THEN Raise("PermissionDenied")
                         ELSE Return(result.value)

\* C10 witness: the schema view raised PermissionDenied because every
\* endpoint of a tree with endpoints was filtered out.
C10_Witness ==
    /\ pc = "returned"
    /\ caller = "SchemaView"
    /\ endpoints.val # <<>>
    /\ result.value = None
    /\ response = Raise("PermissionDenied")

(***************************************************************************)
(* C11: the endpoint cache                                                 *)
(***************************************************************************)
\* C11: over any sequence of get_schema calls on one generator, whatever
\* the requests and whether a call returns or raises, the endpoint
\* inspector runs only in the first call, hence at most once, and once
\* the endpoint list is set no step changes it.
C11_InspectedOnce ==
    [][ /\ inspections' # inspections =>
              /\ calls = 0
              /\ calls' = 1
              /\ endpoints = None
              /\ inspections' = 1
              /\ endpoints' = Some(get_api_endpoints(patterns, <<>>))
        /\ endpoints # None => endpoints' = endpoints
        /\ calls' > 0 => endpoints' # None
        /\ inspections' <= 1 ]_vars

\* C11 witness: a second call, with another request than the first would
\* need, has run to its end on a generator whose first call filled the
\* cache with endpoints; the inspector ran once.
C11_Witness ==
    /\ calls = 2
    /\ pc = "returned"
    /\ request # None
    /\ inspections = 1
    /\ endpoints # None
    /\ Len(endpoints.val) > 1

(***************************************************************************)
(* C12: the nested mapping                                                 *)
(***************************************************************************)
\* The endpoints the running call has inserted so far, in order.
Inserted == { j \in 1..(idx - 1) : PassedFilters(j) }

\* The last endpoint inserted so far under exactly the keys of endpoint j.
LastAt(j) ==
    CHOOSE m \in Inserted :
        /\ KeysOf(m) = KeysOf(j)
        /\ \A k \in Inserted : KeysOf(k) = KeysOf(j) => k <= m

ListKey == << "l", "i", "s", "t" >>
CreateKey == << "c", "r", "e", "a", "t", "e" >>

\* C12 as stated: after any number of passes of the loop of get_links the
\* mapping is a nested mapping in which, for the keys of every endpoint
\* inserted so far, following the keys leads to the Link last inserted
\* under exactly those keys: an insertion overwrites only an insertion at
\* identical keys and Links under other keys stay present.
C12_InsertedStayPresent ==
    Processed =>
        /\ links.kind = "dict"
        /\ \A j \in Inserted :
              Lookup(links, KeysOf(j).value) = Some(LinkOf(LastAt(j)))

\* C12, what holds: the Link last inserted under the keys of an inserted
\* endpoint is found by following them unless a later insertion was made
\* under a proper prefix of them; an insertion under keys of which a
\* proper prefix leads to a Link raises TypeError and ends the call.
C12_InsertedStayPresentUnlessPrefix ==
    /\ Processed =>
          /\ links.kind = "dict"
          /\ \A j \in Inserted :
                ( \A k \in Inserted :
                      (k > j /\ IsPrefix(KeysOf(k).value, KeysOf(j).value))
                          => KeysOf(k) = KeysOf(j) )
                => Lookup(links, KeysOf(j).value) = Some(LinkOf(LastAt(j)))
    /\ (pc = "raised" /\ result = Raise("TypeError")) =>
          \E n \in 1..(Len(keys) - 1) :
              LET found == Lookup(links, SubSeq(keys, 1, n))
              IN  found # None /\ found.val.kind = "Link"

\* C12 witness: users, list and then users, create were inserted; both
\* Links are under users, which was created by the first insertion.
C12_Witness ==
    /\ Processed
    /\ keys = << users, CreateKey >>
    /\ \E j \in Inserted : KeysOf(j).value = << users, ListKey >>
    /\ Lookup(links, << users >>) # None
    /\ Lookup(links, << users >>).val.kind = "dict"
    /\ DOMAIN Lookup(links, << users >>).val.items = { ListKey, CreateKey }
    /\ Lookup(links, << users, ListKey >>).val.kind = "Link"
    /\ Lookup(links, << users, CreateKey >>).val.kind = "Link"
    /\ Lookup(links, << users, ListKey >>)
          # Lookup(links, << users, CreateKey >>)

\* C12 witness of the loss: a Link was inserted under users, groups after
\* Links had been inserted under users, groups, list.
C12_LostWitness ==
    /\ Processed
    /\ keys = << users, groups >>
    /\ \E j \in Inserted : KeysOf(j).value = << users, groups, ListKey >>
    /\ Lookup(links, << users, groups >>) = Some(link)
    /\ Lookup(links, << users, groups, ListKey >>) = None

(***************************************************************************)
(* C13: custom actions with several methods                                *)
(***************************************************************************)
\* The view is a viewset's, its action is custom and its action map
\* declares more than one method.
CustomMulti(v) ==
    /\ v.has_action
    /\ v.action \notin StandardActions
    /\ Len(v.action_map.val) > 1

\* The methods the default mapping has an action for.
MappedMethods == { "GET", "POST", "PUT", "PATCH", "DELETE" }

RetrieveKey == << "r", "e", "t", "r", "i", "e", "v", "e" >>

\* C13 as stated: for every endpoint of a viewset whose action is custom
\* and whose action map declares more than one method, whatever the
\* method, get_keys returns the static segments of the path, none
\* removed, followed by the action the default mapping gives for the
\* method.
C13_KeysOfMultiMethodAction ==
    /\ (Processed /\ included /\ CustomMulti(view)) =>
          /\ LastEndpoint.method \in MappedMethods
          /\ keys = StaticSegments(LastEndpoint.path)
                      \o << chars(SpecMapping(LastEndpoint.method)) >>
    /\ (pc = "raised" /\ CustomMulti(view)) => result # Raise("KeyError")

\* C13, what holds: the keys are as stated for the methods the default
\* mapping knows; for any other method the action map declares (HEAD,
\* OPTIONS) get_keys raises KeyError, which ends the call.
C13_KeysOfMappedMethods ==
    /\ (Processed /\ included /\ CustomMulti(view)) =>
          /\ LastEndpoint.method \in MappedMethods
          /\ keys = StaticSegments(LastEndpoint.path)
                      \o << chars(SpecMapping(LastEndpoint.method)) >>
    /\ (pc = "raised" /\ result = Raise("KeyError")) =>
          /\ CustomMulti(view)
          /\ endpoints.val[idx].method \notin MappedMethods

\* C13 witness: the POST of the action groups, declared for several
\* methods at /users/{pk}/groups/, was given the keys users, groups,
\* create, after its GET had been given users, groups, retrieve.
C13_Witness ==
    /\ Processed
    /\ included
    /\ CustomMulti(view)
    /\ view.action = "groups"
    /\ LastEndpoint.path = UserGroupsPath
    /\ LastEndpoint.method = "POST"
    /\ keys = << users, groups, CreateKey >>
    /\ Lookup(links, << users, groups, RetrieveKey >>) # None

\* C13 witness of the failure: the HEAD of that action ended the call.
C13_RaisedWitness ==
    /\ pc = "raised"
    /\ result = Raise("KeyError")
    /\ CustomMulti(view)
    /\ view.action = "groups"
    /\ endpoints.val[idx].method = "HEAD"

(***************************************************************************)
(* C14: generation reads, it does not remember                             *)
(***************************************************************************)
\* What a generator that knows nothing of earlier calls makes of the first
\* n endpoints of the list for a request: the mapping, or the exception.
RECURSIVE LinksAfter(_, _)
LinksAfter(request_, n) ==
    IF n = 0 THEN Return(EmptyDict)
    ELSE LET before == LinksAfter(request_, n - 1)
             endpoint == endpoints.val[n]
             v == create_view(endpoint.callback, endpoint.method, request_)
             inc == should_include_view(endpoint.path, endpoint.method, v)
             k == get_keys(endpoint.path, endpoint.method, v)
             l == get_link(url, endpoint.path, endpoint.method, v)
         IN  IF before.raised THEN before
             ELSE IF inc.raised THEN Raise(inc.error)
             ELSE IF ~ inc.value THEN before
             ELSE IF k.raised THEN k
             ELSE insert_into(before.value, k.value, l)

\* The outcome of get_schema as a function of the endpoint list, the
\* generator's title and url, and the request alone.
Generated(request_) ==
    LET made == LinksAfter(request_, Len(endpoints.val))
    IN  IF made.raised THEN made
        ELSE IF made.value = EmptyDict THEN Return(None)
        ELSE Return(Some(Document(title, url, made.value)))

\* C14: whatever calls came before and whatever their requests were, the
\* outcome of a get_schema call is the one determined by the endpoint
\* list of the routing tree and by the call's own request: a repeated call
\* yields an equal Document, and no earlier call adds a Link to, or
\* removes one from, a later call's result.
C14_ResultDependsOnRequestOnly ==
    pc \in { "returned", "raised" } =>
        /\ endpoints = Some(get_api_endpoints(patterns, <<>>))
        /\ result = Generated(request)
        /\ pc = "returned" => links = LinksAfter(request, idx - 1).value

\* C14 witness: a second call on the generator has returned a Document
\* for a request that is refused at some endpoint, so that an earlier call
\* without a request, or with a user of more rights, had more Links.
C14_Witness ==
    /\ calls = 2
    /\ pc = "returned"
    /\ request # None
    /\ result.value # None
    /\ \E j \in 1..Len(endpoints.val) :
          /\ ~ Excluded(j)
          /\ Denied(j)
          /\ ~ Present(j)
          /\ ~ Generated(None).raised
          /\ Generated(None).value # None
          /\ Generated(None) # result
          /\ Lookup(Generated(None).value.val.content, KeysOf(j).value)
                = Some(LinkOf(j))

====
